---- MODULE Spec2Model ----
(***************************************************************************)
(* Books API: the FastAPI handlers of main.py over the storage functions   *)
(* of database.py, and the payload validation of models.py.                *)
(*                                                                         *)
(* The SQLite file bokelai.db is the variable db: whether the file exists, *)
(* whether the books table exists, the table's rows keyed by rowid, and    *)
(* the AUTOINCREMENT high-water mark kept in sqlite_sequence.              *)
(* Every request is run by a worker thread (the handlers are plain `def`,  *)
(* so the framework runs them on a thread pool). A worker walks through    *)
(* the storage function it called: os.path.exists, sqlite3.connect, the    *)
(* CREATE TABLE of the bootstrap, the statement with its commit, and the   *)
(* close of the finally block.                                             *)
(*                                                                         *)
(* An optional value (Python's None or a value) is <<>> or <<v>>.          *)
(* CURRENT_TIMESTAMP is a logical clock that ticks with every insert.      *)
(***************************************************************************)
EXTENDS Integers, Sequences, FiniteSets, TLC

\* ---------------------------------------------------------------- bounds
\* Sequential specification (Spec): ids, OFFSET and LIMIT values requested.
MaxId == 5
MaxSkip == 5
MaxLimit == 2
\* Concurrent specification (SpecConc).
MaxIdConc == 2
MaxSkipConc == 0
MaxLimitConc == 1

Workers == {"w1", "w2"}

None == <<>>
Some(v) == <<v>>

Max(a, b) == IF a >= b THEN a ELSE b
Min(a, b) == IF a <= b THEN a ELSE b

VARIABLES
    db,      \* bokelai.db: [file, table, books, seq]
    clock,   \* CURRENT_TIMESTAMP
    pc,      \* pc[w]: where worker w is
    req,     \* req[w]: the HTTP request worker w handles (or handled last)
    frame,   \* frame[w]: the storage function worker w is in, and its locals
    open,    \* open[w]: connections opened by w and not closed
    resp,    \* resp[w]: what the handler of w returned or raised
    issued   \* history: the ids returned by successful create_book calls, in order

vars == <<db, clock, pc, req, frame, open, resp, issued>>

\* ------------------------------------------------------------- payloads
\* models.BookCreate: every field Optional with default None, but price.
Payload(t, a, pb, pr, pd, i, c) ==
    [title |-> t, author |-> a, publisher |-> pb, price |-> pr,
     publish_date |-> pd, isbn |-> i, cover_url |-> c]

NoPayload == Payload(None, None, None, None, None, None, None)

PMin == Payload(Some("A"), Some("B"), None, Some(100), None, None, None)
PFull == Payload(Some(""), Some("C"), Some("P"), Some(1), Some("D"), Some("I"), Some("U"))
PNoTitle == Payload(None, Some("B"), None, Some(5), None, None, None)
PNoAuthor == Payload(Some("A"), None, None, Some(5), None, None, None)
PZero == Payload(Some("A"), Some("B"), None, Some(0), None, None, None)
PNegative == Payload(Some("A"), Some("B"), None, Some(-1), None, None, None)
PNoPrice == Payload(Some("A"), Some("B"), None, None, None, None, None)

Payloads == {PMin, PFull, PNoTitle, PNoAuthor, PZero, PNegative, PNoPrice}

\* price: int = Field(..., gt=0)
ValidMutGe0(p) == p.price # None /\ p.price[1] >= 0
Valid(p) == p.price # None /\ p.price[1] > 0

\* ---------------------------------------------------------------- store
EmptyBooks == [i \in {} |-> None]

\* title, author and price are NOT NULL.
NotNull(p) == p.title # None /\ p.author # None /\ p.price # None

MaxRowid(books) == IF DOMAIN books = {} THEN 0
                   ELSE CHOOSE m \in DOMAIN books : \A i \in DOMAIN books : i <= m

\* INTEGER PRIMARY KEY AUTOINCREMENT: one more than the largest rowid the
\* table ever held (sqlite_sequence), not than the largest it holds now.
NextRowidMutNoAutoincrement(d) == MaxRowid(d.books) + 1
NextRowid(d) == Max(d.seq, MaxRowid(d.books)) + 1

\* The row an INSERT of payload p stores: the seven bound columns, the
\* rowid, and DEFAULT CURRENT_TIMESTAMP.
NewRowMutSwapBinding(id, p, ts) ==
    [id |-> id, title |-> p.title, author |-> p.author, publisher |-> p.isbn,
     price |-> p.price, publish_date |-> p.publish_date, isbn |-> p.publisher,
     cover_url |-> p.cover_url, created_at |-> Some(ts)]
NewRow(id, p, ts) ==
    [id |-> id, title |-> p.title, author |-> p.author, publisher |-> p.publisher,
     price |-> p.price, publish_date |-> p.publish_date, isbn |-> p.isbn,
     cover_url |-> p.cover_url, created_at |-> Some(ts)]

\* The row an UPDATE ... SET of the seven columns leaves.
SetRowMutMerge(old, p) ==
    [id |-> old.id,
     title |-> IF p.title = None THEN old.title ELSE p.title,
     author |-> IF p.author = None THEN old.author ELSE p.author,
     publisher |-> IF p.publisher = None THEN old.publisher ELSE p.publisher,
     price |-> p.price,
     publish_date |-> IF p.publish_date = None THEN old.publish_date ELSE p.publish_date,
     isbn |-> IF p.isbn = None THEN old.isbn ELSE p.isbn,
     cover_url |-> IF p.cover_url = None THEN old.cover_url ELSE p.cover_url,
     created_at |-> old.created_at]
SetRow(old, p) ==
    [id |-> old.id, title |-> p.title, author |-> p.author, publisher |-> p.publisher,
     price |-> p.price, publish_date |-> p.publish_date, isbn |-> p.isbn,
     cover_url |-> p.cover_url, created_at |-> old.created_at]

\* A scan of the table without ORDER BY: ascending rowid.
Scan(books) ==
    LET ids == DOMAIN books
        IdAt(i) == CHOOSE id \in ids : Cardinality({j \in ids : j <= id}) = i
    IN  [i \in 1..Cardinality(ids) |-> books[IdAt(i)]]

\* LIMIT l OFFSET o: a negative LIMIT is no limit, a negative OFFSET is 0.
LimitOffset(s, l, o) ==
    LET off == IF o < 0 THEN 0 ELSE o
        hi == IF l < 0 THEN Len(s) ELSE Min(Len(s), off + l)
    IN  SubSeq(s, off + 1, hi)

\* Each statement, with its commit: the store it leaves and what the storage
\* function returns. A statement that raises (no such table, NOT NULL
\* constraint failed) leaves the store as it was: the connection is closed
\* without a commit.

\* SELECT * FROM books LIMIT ? OFFSET ?  bound to (limit, skip)
SelectAllMutSwappedBinding(d, skip, limit) ==
    IF ~d.table THEN <<>> ELSE LimitOffset(Scan(d.books), skip, limit)
SelectAll(d, skip, limit) ==
    IF ~d.table THEN <<>> ELSE LimitOffset(Scan(d.books), limit, skip)

\* SELECT * FROM books WHERE id = ?
SelectOne(d, id) ==
    IF d.table /\ id \in DOMAIN d.books THEN Some(d.books[id]) ELSE None

\* INSERT INTO books (...) VALUES (...); returns cursor.lastrowid or -1
Insert(d, p, ts) ==
    IF ~d.table \/ ~NotNull(p) THEN [db |-> d, ret |-> -1]
    ELSE LET id == NextRowid(d)
         IN  [db |-> [d EXCEPT !.books = (id :> NewRow(id, p, ts)) @@ d.books,
                               !.seq = id],
              ret |-> id]

\* UPDATE books SET ... WHERE id = ?; returns cursor.rowcount > 0
Update(d, id, p) ==
    IF d.table /\ id \in DOMAIN d.books /\ NotNull(p)
    THEN [db |-> [d EXCEPT !.books[id] = SetRow(@, p)], ret |-> TRUE]
    ELSE [db |-> d, ret |-> FALSE]

\* DELETE FROM books WHERE id = ?; returns cursor.rowcount > 0
DeleteMutAlwaysTrue(d, id) ==
    IF ~d.table THEN [db |-> d, ret |-> FALSE]
    ELSE [db |-> [d EXCEPT !.books = [i \in DOMAIN d.books \ {id} |-> d.books[i]]],
          ret |-> TRUE]
Delete(d, id) ==
    IF ~d.table THEN [db |-> d, ret |-> FALSE]
    ELSE IF id \in DOMAIN d.books
         THEN [db |-> [d EXCEPT !.books = [i \in DOMAIN d.books \ {id} |-> d.books[i]]],
               ret |-> TRUE]
         ELSE [db |-> d, ret |-> FALSE]

\* --------------------------------------------------------------- workers
NoReq == [op |-> "none", id |-> 0, payload |-> NoPayload, skip |-> 0, limit |-> 0]
NoResp == [status |-> 0, body |-> None]
NoFrame == [fn |-> "none", book_id |-> 0, db_exists |-> FALSE, conn |-> "unset", ret |-> None]

Call(fn, id) == [NoFrame EXCEPT !.fn = fn, !.book_id = id]

Init ==
    /\ db = [file |-> FALSE, table |-> FALSE, books |-> EmptyBooks, seq |-> 0]
    /\ clock = 1
    /\ pc = [w \in Workers |-> "idle"]
    /\ req = [w \in Workers |-> NoReq]
    /\ frame = [w \in Workers |-> NoFrame]
    /\ open = [w \in Workers |-> 0]
    /\ resp = [w \in Workers |-> NoResp]
    /\ issued = <<>>

\* A handler starts by calling its storage function.
Start(w, r, fn, id) ==
    /\ pc[w] = "idle"
    /\ req' = [req EXCEPT ![w] = r]
    /\ resp' = [resp EXCEPT ![w] = NoResp]
    /\ frame' = [frame EXCEPT ![w] = Call(fn, id)]
    /\ pc' = [pc EXCEPT ![w] = "check"]
    /\ UNCHANGED <<db, clock, open, issued>>

\* A request body that fails validation never reaches the handler.
Reject(w, r) ==
    /\ pc[w] = "idle"
    /\ req' = [req EXCEPT ![w] = r]
    /\ resp' = [resp EXCEPT ![w] = [status |-> 422, body |-> None]]
    /\ UNCHANGED <<db, clock, pc, frame, open, issued>>

\* GET /books?skip=&limit=
GetBooks(w, skips, limits) ==
    \E s \in skips, l \in limits :
        Start(w, [NoReq EXCEPT !.op = "GET /books", !.skip = s, !.limit = l],
              "get_all_books", 0)

\* GET /books/{book_id}
GetBook(w, ids) ==
    \E id \in ids :
        Start(w, [NoReq EXCEPT !.op = "GET /books/{id}", !.id = id], "get_book_by_id", id)

\* The creates still to commit: the bound on ids counts them.
Creating == {w \in Workers : pc[w] # "idle" /\ frame[w].fn = "create_book"}

\* POST /books
CreateBook(w, cap) ==
    \E p \in Payloads :
        LET r == [NoReq EXCEPT !.op = "POST /books", !.payload = p]
        IN  IF Valid(p)
            THEN /\ db.seq + Cardinality(Creating) < cap
                 /\ Start(w, r, "create_book", 0)
            ELSE Reject(w, r)

\* PUT /books/{book_id}
UpdateBook(w, ids) ==
    \E id \in ids, p \in Payloads :
        LET r == [NoReq EXCEPT !.op = "PUT /books/{id}", !.id = id, !.payload = p]
        IN  IF Valid(p) THEN Start(w, r, "update_book", id) ELSE Reject(w, r)

\* DELETE /books/{book_id}
DeleteBook(w, ids) ==
    \E id \in ids :
        Start(w, [NoReq EXCEPT !.op = "DELETE /books/{id}", !.id = id], "delete_book", id)

\* get_db_connection: db_exists = os.path.exists(db_file)
Check(w) ==
    /\ pc[w] = "check"
    /\ frame' = [frame EXCEPT ![w].db_exists = db.file]
    /\ pc' = [pc EXCEPT ![w] = "connect"]
    /\ UNCHANGED <<db, clock, req, open, resp, issued>>

\* get_db_connection: conn = sqlite3.connect(db_file), which creates an
\* empty file when there is none; with db_exists the connection is returned.
Connect(w) ==
    /\ pc[w] = "connect"
    /\ db' = [db EXCEPT !.file = TRUE]
    /\ open' = [open EXCEPT ![w] = @ + 1]
    /\ IF frame[w].db_exists
       THEN /\ frame' = [frame EXCEPT ![w].conn = "conn"]
            /\ pc' = [pc EXCEPT ![w] = "exec"]
       ELSE /\ pc' = [pc EXCEPT ![w] = "bootstrap"]
            /\ UNCHANGED frame
    /\ UNCHANGED <<clock, req, resp, issued>>

\* get_db_connection: CREATE TABLE books. It raises when the table exists,
\* and the except clause returns None without closing the connection.
Bootstrap(w) ==
    /\ pc[w] = "bootstrap"
    /\ IF db.table
       THEN /\ frame' = [frame EXCEPT ![w].conn = "None"]
            /\ UNCHANGED db
       ELSE /\ frame' = [frame EXCEPT ![w].conn = "conn"]
            /\ db' = [db EXCEPT !.table = TRUE]
    /\ pc' = [pc EXCEPT ![w] = "exec"]
    /\ UNCHANGED <<clock, req, open, resp, issued>>

\* What the storage function returns when get_db_connection returned None.
Failure(fn) ==
    CASE fn = "get_all_books" -> <<>>
      [] fn = "get_book_by_id" -> None
      [] fn = "create_book" -> -1
      [] OTHER -> FALSE

\* The statement of the storage function and its commit.
Statement(fn, d, r, id, ts) ==
    CASE fn = "get_all_books" -> [db |-> d, ret |-> SelectAll(d, r.skip, r.limit)]
      [] fn = "get_book_by_id" -> [db |-> d, ret |-> SelectOne(d, id)]
      [] fn = "create_book" -> Insert(d, r.payload, ts)
      [] fn = "update_book" -> Update(d, id, r.payload)
      [] OTHER -> Delete(d, id)

\* The handler, once its storage function fn has returned ret: it raises an
\* HTTPException, returns, or (POST, PUT) fetches the written row again.
Returned(w, fn, ret) ==
    LET op == req[w].op
        done(status, body) ==
            /\ resp' = [resp EXCEPT ![w] = [status |-> status, body |-> body]]
            /\ frame' = [frame EXCEPT ![w] = NoFrame]
            /\ pc' = [pc EXCEPT ![w] = "idle"]
        again(id) ==
            /\ frame' = [frame EXCEPT ![w] = Call("get_book_by_id", id)]
            /\ pc' = [pc EXCEPT ![w] = "check"]
            /\ UNCHANGED resp
    IN  CASE op = "GET /books" -> done(200, ret)
          [] op = "GET /books/{id}" ->
                IF ret = None THEN done(404, None) ELSE done(200, ret)
          [] op = "POST /books" /\ fn = "create_book" ->
                IF ret = -1 THEN done(400, None) ELSE again(ret)
          [] op = "POST /books" /\ fn = "get_book_by_id" -> done(201, ret)
          [] op = "PUT /books/{id}" /\ fn = "update_book" ->
                IF ~ret THEN done(404, None) ELSE again(req[w].id)
          [] op = "PUT /books/{id}" /\ fn = "get_book_by_id" -> done(200, ret)
          [] OTHER -> IF ~ret THEN done(404, None) ELSE done(204, None)

\* `if conn is None: return ...`, or the statement inside the try.
Exec(w) ==
    /\ pc[w] = "exec"
    /\ IF frame[w].conn = "None"
       THEN /\ Returned(w, frame[w].fn, Failure(frame[w].fn))
            /\ UNCHANGED <<db, clock, issued>>
       ELSE LET fn == frame[w].fn
                out == Statement(fn, db, req[w], frame[w].book_id, clock)
                created == fn = "create_book" /\ out.ret # -1
            IN  /\ db' = out.db
                /\ frame' = [frame EXCEPT ![w].ret = out.ret]
                /\ pc' = [pc EXCEPT ![w] = "close"]
                /\ clock' = IF created THEN clock + 1 ELSE clock
                /\ issued' = IF created THEN Append(issued, out.ret) ELSE issued
                /\ UNCHANGED resp
    /\ UNCHANGED <<req, open>>

\* finally: conn.close(), and the function returns to the handler.
Close(w) ==
    /\ pc[w] = "close"
    /\ open' = [open EXCEPT ![w] = @ - 1]
    /\ Returned(w, frame[w].fn, frame[w].ret)
    /\ UNCHANGED <<db, clock, req, issued>>

Step(w, ids, skips, limits) ==
    \/ GetBooks(w, skips, limits)
    \/ GetBook(w, ids)
    \/ CreateBook(w, Cardinality(ids))
    \/ UpdateBook(w, ids)
    \/ DeleteBook(w, ids)
    \/ Check(w)
    \/ Connect(w)
    \/ Bootstrap(w)
    \/ Exec(w)
    \/ Close(w)

\* One client, one request at a time.
Next == Step("w1", 1..MaxId, 0..MaxSkip, 0..MaxLimit)

Spec == Init /\ [][Next]_vars

\* Requests handled concurrently by the thread pool.
NextConc == \E w \in Workers : Step(w, 1..MaxIdConc, 0..MaxSkipConc, 0..MaxLimitConc)

SpecConc == Init /\ [][NextConc]_vars

\* ---------------------------------------------------------------- claims
W1 == "w1"

Fields == {"title", "author", "publisher", "price", "publish_date", "isbn", "cover_url"}

\* The rows the table holds, in the order their creates committed.
Surviving == SelectSeq(issued, LAMBDA id : id \in DOMAIN db.books)

Answered(w, op) == pc[w] = "idle" /\ req[w].op = op /\ resp[w] # NoResp

\* C1: every id a successful create_book returns is strictly greater than
\* every id a successful create_book returned before it, the ids of rows
\* deleted since included: no id is assigned twice.
C1_IdsStrictlyIncrease ==
    \A i, j \in 1..Len(issued) : i < j => issued[i] < issued[j]

\* C1 witness: three creates committed and only the row of the last is left,
\* so ids of deleted rows were there to be reused.
C1_Witness ==
    /\ Len(issued) = 3
    /\ DOMAIN db.books = {issued[3]}
    /\ pc[W1] = "idle"

\* C2: GET /books with limit = 0 answers with every row after the first skip
\* rows.
C2_LimitZeroIsUnbounded ==
    (Answered(W1, "GET /books") /\ req[W1].limit = 0) =>
        resp[W1].body = SubSeq(Scan(db.books), req[W1].skip + 1, Cardinality(DOMAIN db.books))

\* C3: a worker that is in no storage function (its handler has not called
\* one yet, or the one it called has returned) holds no open connection.
C3_ConnectionsReleased ==
    \A w \in Workers : pc[w] \in {"idle", "check"} => open[w] = 0

\* The schema and validation constraints on a row, and the requests that
\* would break them.
C4_RowInvariant ==
    \A id \in DOMAIN db.books :
        LET b == db.books[id]
        IN  b.price # None /\ b.price[1] > 0 /\ b.title # None /\ b.author # None

C4_Violating(r) ==
    /\ r.op \in {"POST /books", "PUT /books/{id}"}
    /\ \/ r.payload.price = None
       \/ r.payload.price[1] <= 0
       \/ r.payload.title = None
       \/ r.payload.author = None

\* C4: every persisted row has price > 0 and a title and an author that are
\* not null, and no step of a POST or PUT whose payload has price <= 0 or
\* missing, or a null title or author, changes the rows or the id sequence.
C4_RowsStayValid ==
    [][/\ C4_RowInvariant'
       /\ C4_Violating(req'[W1]) => (db'.books = db.books /\ db'.seq = db.seq)]_vars

\* C4 witness: a PUT of a null title to an existing id (it passes validation
\* and reaches the UPDATE) was turned down with 404.
C4_Witness ==
    /\ pc[W1] = "idle"
    /\ req[W1].op = "PUT /books/{id}"
    /\ req[W1].payload = PNoTitle
    /\ req[W1].id \in DOMAIN db.books
    /\ resp[W1].status = 404

\* C5: the record POST /books re-fetches after a successful create has the
\* seven fields of the payload (an omitted field is null), the id create_book
\* returned, and a created_at.
C5_CreateRoundTrip ==
    (Answered(W1, "POST /books") /\ resp[W1].status = 201) =>
        /\ Len(resp[W1].body) = 1
        /\ \A f \in Fields : resp[W1].body[1][f] = req[W1].payload[f]
        /\ resp[W1].body[1].id = issued[Len(issued)]
        /\ resp[W1].body[1].created_at # None

\* C5 witness: a create of a payload with every field set, after a create of
\* one with the optional fields omitted.
C5_Witness ==
    /\ Answered(W1, "POST /books")
    /\ resp[W1].status = 201
    /\ req[W1].payload = PFull
    /\ resp[W1].body[1].id = 2
    /\ db.books[1].publisher = None

\* The step that runs the UPDATE, and the answer of the PUT handler.
C6_UpdateStep ==
    (/\ pc[W1] = "exec"
     /\ frame[W1].fn = "update_book"
     /\ frame[W1].book_id \in DOMAIN db.books
     /\ NotNull(req[W1].payload)) =>
        LET id == frame[W1].book_id
        IN  /\ frame'[W1].ret = TRUE
            /\ DOMAIN db'.books = DOMAIN db.books
            /\ \A j \in DOMAIN db.books \ {id} : db'.books[j] = db.books[j]
            /\ db'.books[id].id = id
            /\ db'.books[id].created_at = db.books[id].created_at
            /\ \A f \in Fields : db'.books[id][f] = req[W1].payload[f]

C6_UpdateAnswer ==
    (Answered(W1, "PUT /books/{id}") /\ resp[W1].status = 200) =>
        /\ resp[W1].body = Some(db.books[req[W1].id])
        /\ resp[W1].body[1].id = req[W1].id
        /\ \A f \in Fields : resp[W1].body[1][f] = req[W1].payload[f]

\* C6: an UPDATE that matched leaves the row with the seven fields of the
\* payload (an omitted field null), its id and created_at as they were, and
\* every other row as it was; the record PUT re-fetches is that row.
C6_UpdateReplaces == [][C6_UpdateStep /\ C6_UpdateAnswer']_vars

\* C6 witness: a PUT that omits the optional fields answered 200 for a row
\* created before another row that is still there.
C6_Witness ==
    /\ Answered(W1, "PUT /books/{id}")
    /\ resp[W1].status = 200
    /\ req[W1].payload = PMin
    /\ req[W1].id = 1
    /\ 2 \in DOMAIN db.books
    /\ db.books[2].publisher # None

\* The steps that run the DELETE and the SELECT by id, and the answer of the
\* DELETE handler.
C7_DeleteStep ==
    (pc[W1] = "exec" /\ frame[W1].fn = "delete_book") =>
        LET id == frame[W1].book_id
        IN  IF id \in DOMAIN db.books
            THEN /\ frame'[W1].ret = TRUE
                 /\ DOMAIN db'.books = DOMAIN db.books \ {id}
                 /\ \A j \in DOMAIN db'.books : db'.books[j] = db.books[j]
                 /\ db'.seq = db.seq
            ELSE /\ frame'[W1].ret = FALSE
                 /\ db' = db

C7_GetAfterDelete ==
    (pc[W1] = "exec" /\ frame[W1].fn = "get_book_by_id"
        /\ frame[W1].book_id \notin DOMAIN db.books) =>
            frame'[W1].ret = None

C7_DeleteAnswer ==
    Answered(W1, "DELETE /books/{id}") =>
        /\ req[W1].id \notin DOMAIN db.books
        /\ resp[W1].status \in {204, 404}

\* C7: a DELETE of an existing id returns true and removes that row alone; a
\* SELECT of an id that is not there returns nothing; a DELETE of an id that
\* is not there (a second DELETE) returns false and leaves the store as it was.
C7_DeleteRemoves == [][C7_DeleteStep /\ C7_GetAfterDelete /\ C7_DeleteAnswer']_vars

\* C7 witness: a DELETE answered 404 for an id that a create had returned (the
\* row was deleted before), with another row still in the store.
C7_Witness ==
    /\ Answered(W1, "DELETE /books/{id}")
    /\ resp[W1].status = 404
    /\ \E i \in 1..Len(issued) : issued[i] = req[W1].id
    /\ db.books # EmptyBooks

\* C8: with limit > 0, GET /books answers with the rows at positions
\* skip+1 .. skip+limit of the insertion order that exist, in that order:
\* min(limit, max(0, n - skip)) records.
C8_PageOfInsertionOrder ==
    (Answered(W1, "GET /books") /\ req[W1].limit > 0) =>
        LET n == Len(Surviving)
            k == Min(req[W1].limit, Max(0, n - req[W1].skip))
        IN  resp[W1].body = [i \in 1..k |-> db.books[Surviving[req[W1].skip + i]]]

\* C8 witness: five rows, skip = 4, limit = 2: exactly one record, the last.
C8_Witness ==
    /\ Answered(W1, "GET /books")
    /\ Cardinality(DOMAIN db.books) = 5
    /\ req[W1].skip = 4
    /\ req[W1].limit = 2
    /\ Len(resp[W1].body) = 1
    /\ resp[W1].body[1].id = 5

\* C9: a POST or PUT whose write succeeded (the handler went on to re-fetch
\* and returned with 201 or 200) answers with a record, never with None.
C9_RefetchedRecordPresent ==
    \A w \in Workers :
        (pc[w] = "idle" /\ resp[w].status \in {200, 201}
            /\ req[w].op \in {"POST /books", "PUT /books/{id}"}) =>
                resp[w].body # None

\* C10: get_db_connection never returns None to a caller, and no caller runs
\* its statement against a store without the books table.
C10_BootstrapSafe ==
    \A w \in Workers :
        /\ frame[w].conn # "None"
        /\ (pc[w] = "exec" => db.table)

====
